---- MODULE Spec2Model ----
(***************************************************************************)
(* Order & balance ledger engine of the Kraken sandbox                     *)
(* (src/api/private_endpoints.py, src/utils.py, src/database.py,           *)
(* src/app.py).                                                            *)
(*                                                                         *)
(* Every HTTP request is served by its own thread with its own sqlite3     *)
(* connection (app.py before_request / teardown_request, database.get_db). *)
(* The connection runs in Python's default transaction mode: a SELECT      *)
(* reads the committed database, the first INSERT/UPDATE opens a           *)
(* transaction and takes SQLite's single write lock, db.commit() publishes *)
(* the transaction, and closing the connection without commit rolls it     *)
(* back.  A writer that finds the lock taken waits for the busy timeout    *)
(* and then raises "database is locked".                                   *)
(*                                                                         *)
(* Decimal amounts (volume, price, balance, cost, fee) are integers        *)
(* counting steps of 1/Quant, where one step stands for the quantization   *)
(* step Decimal('0.00000001') of utils.calculate_cost/calculate_fee.  A    *)
(* product volume*price therefore counts steps of 1/Quant^2 and has to be  *)
(* rounded to become an amount, as in the code.  Balances are taken to be  *)
(* exact decimals (SQLite's REAL arithmetic is exact to 15 digits).        *)
(***************************************************************************)
EXTENDS Integers, Sequences, FiniteSets, TLC

\* ------------------------------------------------------------ bounds
Quant == 2          \* steps per unit (stands for 10^8)
MaxOrders == 2      \* rows the orders table may hold
MaxTime == 3        \* seconds the clock may reach

\* ------------------------------------------------------------ optional values
\* A form parameter or a nullable column: absent (None / '' / NULL) or present.
None == <<>>
Some(x) == <<x>>
Val(o) == o[1]
\* Python truthiness of a form string or TEXT column: absent is falsy, every
\* present decimal string (also "0") is truthy.
Truthy(o) == o # None
Abs(n) == IF n < 0 THEN -n ELSE n

\* ------------------------------------------------------------ reference data
Procs == {"p1", "p2"}
Accounts == {"k1"}
Assets == {"XXBT", "XETH", "ZUSD", "ZAUD"}

\* database.seed_asset_pairs: pair_name, altname, base, quote
asset_pairs ==
  { [pair_name |-> "XXBTZUSD", altname |-> "XBTUSD", base |-> "XXBT", quote |-> "ZUSD"],
    [pair_name |-> "XETHZUSD", altname |-> "ETHUSD", base |-> "XETH", quote |-> "ZUSD"],
    [pair_name |-> "XXBTZAUD", altname |-> "XBTAUD", base |-> "XXBT", quote |-> "ZAUD"],
    [pair_name |-> "XETHZAUD", altname |-> "ETHAUD", base |-> "XETH", quote |-> "ZAUD"] }

\* SELECT ... FROM asset_pairs WHERE pair_name = ? OR altname = ?
pair_rows(pair) == { r \in asset_pairs : r.pair_name = pair \/ r.altname = pair }
pair_info(pair) == CHOOSE r \in pair_rows(pair) : TRUE

\* database.seed_account_balances, in whole units
SeedXXBT == 100
SeedXETH == 100
SeedZUSD == 1000000
SeedZAUD == 1000000
seed_account_balances ==
  [a \in Assets |->
     Some(Quant * (CASE a = "XXBT" -> SeedXXBT
                     [] a = "XETH" -> SeedXETH
                     [] a = "ZUSD" -> SeedZUSD
                     [] a = "ZAUD" -> SeedZAUD))]

OrderTypes == {"market", "limit", "stop-loss", "take-profit", "stop-loss-limit",
               "take-profit-limit", "settle-position"}
LimitFamily == {"limit", "stop-loss-limit", "take-profit-limit"}

\* ------------------------------------------------------------ utils.py
\* Decimal.quantize with the default ROUND_HALF_EVEN: n/d to the nearest integer.
RoundHalfEven(n, d) ==
  LET q == n \div d
      r == n % d
  IN  IF 2 * r < d THEN q
      ELSE IF 2 * r > d THEN q + 1
      ELSE IF q % 2 = 0 THEN q ELSE q + 1

\* n/d to the nearest integer, ties away from zero.
RoundHalfAway(n, d) ==
  IF n >= 0 THEN (2 * n + d) \div (2 * d) ELSE -((2 * (-n) + d) \div (2 * d))

\* utils.calculate_cost: (volume * price).quantize(Decimal('0.00000001'))
calculate_cost(volume, price) == RoundHalfEven(volume * price, Quant)

\* utils.calculate_fee: cost * Decimal(0.26) / 100, quantized.  Decimal(0.26) is
\* built from the float 0.26 = 0.26000000000000000888..., so a product that
\* would be an exact tie lies just beyond it and rounds away from zero.
fee_percentage == 26
FeeDenominator == 10000
calculate_fee(volume, price) ==
  RoundHalfAway(volume * price * fee_percentage, FeeDenominator * Quant)

\* add_order: abs((limit_price - current_price) / current_price * 100) <= 5
WithinPct == 5
\* Variant: the percentage is truncated to a whole number before the comparison.
price_close_truncated(limit_price, current_price) ==
  (Abs(limit_price - current_price) * 100) \div Abs(current_price) <= WithinPct
\* Variant: a difference of exactly 5% does not count as close.
price_close_strict(limit_price, current_price) ==
  Abs(limit_price - current_price) * 100 < WithinPct * Abs(current_price)
price_close(limit_price, current_price) ==
  Abs(limit_price - current_price) * 100 <= WithinPct * Abs(current_price)

\* ------------------------------------------------------------ state
VARIABLES
  balances,   \* committed account_balances: api_key -> asset -> None | Some(balance)
  orders,     \* committed orders table, in rowid order
  trades,     \* committed trades table, in rowid order
  txn,        \* the open write transaction: its owner and its uncommitted tables
  pc,         \* per request thread: where its handler stands
  loc,        \* per request thread: the handler's local variables
  resp,       \* the response returned last, by which thread and from where
  now         \* utils.current_timestamp()

vars == <<balances, orders, trades, txn, pc, loc, resp, now>>
stores == <<balances, orders, trades>>

NoTxn == [owner |-> "none", balances |-> <<>>, orders |-> <<>>, trades |-> <<>>]
NoLoc == [op |-> "none"]
NoResp == [proc |-> "none", at |-> "none", op |-> "none", error |-> "", txid |-> None]

Init ==
  /\ balances = [k \in Accounts |-> seed_account_balances]
  /\ orders = <<>>
  /\ trades = <<>>
  /\ txn = NoTxn
  /\ pc = [p \in Procs |-> "idle"]
  /\ loc = [p \in Procs |-> NoLoc]
  /\ resp = NoResp
  /\ now = 1

\* ------------------------------------------------------------ sqlite3 connection
\* The handler returns: its response is recorded and its locals are gone.
Return(p, r) ==
  /\ pc' = [pc EXCEPT ![p] = "idle"]
  /\ loc' = [loc EXCEPT ![p] = NoLoc]
  /\ resp' = [proc |-> p, at |-> pc[p], op |-> r.op, error |-> r.error, txid |-> r.txid]

Error(op, e) == [op |-> op, error |-> e, txid |-> None]
Ok(op, txid) == [op |-> op, error |-> "", txid |-> txid]

\* The first INSERT/UPDATE of a connection: BEGIN, then the write lock.
Begin(p) == [owner |-> p, balances |-> balances, orders |-> orders, trades |-> trades]

\* db.commit(): the transaction's tables become the committed ones.
commit(p) ==
  /\ txn.owner = p
  /\ balances' = txn.balances
  /\ orders' = txn.orders
  /\ trades' = txn.trades
  /\ txn' = NoTxn

\* Variant: closing the connection publishes the open transaction.
teardown_request_commits(p) ==
  IF txn.owner = p THEN commit(p) ELSE UNCHANGED <<stores, txn>>

\* app.teardown_request after an exception: db.close() without commit discards
\* the open transaction.  The committed tables stay as they are.
teardown_request(p) ==
  /\ txn' = IF txn.owner = p THEN NoTxn ELSE txn
  /\ UNCHANGED stores

\* except Exception: 'EGeneral:Internal error', then the teardown.
raise(p, op) ==
  /\ teardown_request(p)
  /\ Return(p, Error(op, "EGeneral:Internal error"))

\* Indexes of the rows of a table that satisfy a WHERE clause, in rowid order.
Rows(table, Where(_)) == { i \in 1..Len(table) : Where(table[i]) }
OrderIds(table) == { table[i].order_id : i \in 1..Len(table) }
TradeIds(table) == { table[i].trade_id : i \in 1..Len(table) }

\* UPDATE table SET ... WHERE ...: Set(row) applied to every matching row.
Update(table, Where(_), Set(_)) ==
  [i \in 1..Len(table) |-> IF Where(table[i]) THEN Set(table[i]) ELSE table[i]]

\* Variant: the upsert overwrites an existing balance with the inserted value.
upsert_balance_overwrite(table, api_key, asset, inserted, delta) ==
  [table EXCEPT ![api_key][asset] = Some(inserted)]

\* INSERT INTO account_balances VALUES (..., inserted) ON CONFLICT(api_key, asset)
\* DO UPDATE SET balance = CAST(balance AS DECIMAL) + delta
upsert_balance(table, api_key, asset, inserted, delta) ==
  [table EXCEPT ![api_key][asset] =
     IF @ = None THEN Some(inserted) ELSE Some(Val(@) + delta)]

\* ------------------------------------------------------------ oracle, identifiers
\* utils.get_market_price: the price the external sources report at the moment of
\* the call, or None when every source fails (the function raises).
Prices == {60000 * Quant + 1, 63000 * Quant}
get_market_price == {Some(px) : px \in Prices} \cup {None}

\* utils.generate_order_id / generate_trade_id draw at random: the draw is new
\* or, with small probability, hits an identifier already stored.  Identifiers
\* are compared for equality only, so one new value stands for all of them.
generate_order_id(used) == {Cardinality(used) + 1} \cup used
generate_trade_id(used) == {Cardinality(used) + 1} \cup used

\* ------------------------------------------------------------ add_order
\* Variant: a limit-family order is accepted without a price.
add_order_validate_no_price(r) ==
  IF r.pair = "" \/ r.type = "" \/ r.ordertype = "" \/ ~Truthy(r.volume)
    THEN "EGeneral:Invalid arguments"
  ELSE IF r.ordertype \notin OrderTypes THEN "EGeneral:Invalid ordertype"
  ELSE IF r.type \notin {"buy", "sell"} THEN "EGeneral:Invalid type"
  ELSE IF pair_rows(r.pair) = {} THEN "EGeneral:Invalid arguments:pair"
  ELSE ""

\* The parameter checks before the database is touched; "" when they pass.
add_order_validate(r) ==
  IF r.pair = "" \/ r.type = "" \/ r.ordertype = "" \/ ~Truthy(r.volume)
    THEN "EGeneral:Invalid arguments"
  ELSE IF r.ordertype \notin OrderTypes THEN "EGeneral:Invalid ordertype"
  ELSE IF r.type \notin {"buy", "sell"} THEN "EGeneral:Invalid type"
  ELSE IF r.ordertype \in LimitFamily /\ ~Truthy(r.price)
    THEN "EGeneral:Invalid arguments:price"
  ELSE IF pair_rows(r.pair) = {} THEN "EGeneral:Invalid arguments:pair"
  ELSE ""

\* The asset whose balance covers the order.
check_asset(r) ==
  IF r.type = "buy" THEN pair_info(r.pair).quote ELSE pair_info(r.pair).base

\* buy: cost = Decimal(volume) * Decimal(price) if price else 0; cost > balance.
\* sell: Decimal(volume) > balance.
insufficient_funds(type, volume, price, balance) ==
  IF type = "buy"
    THEN (IF Truthy(price) THEN Val(volume) * Val(price) ELSE 0) > balance * Quant
    ELSE Val(volume) > balance

\* Rows the orders table would hold if every handler now past its balance check
\* inserted its order.
Inserting == {q \in Procs : pc[q] \in {"add_newbal", "add_insert", "edit_write"}}
HasRoom == Len(orders) + Cardinality(Inserting) < MaxOrders

\* Lines 250-289 with the balance read: the market price for a market buy, then
\* the sufficiency check.
add_order_precheck(p, k, r, balance) ==
  \E q \in (IF r.type = "buy" /\ r.ordertype = "market"
              THEN get_market_price ELSE {r.price}) :
    IF r.type = "buy" /\ r.ordertype = "market" /\ q = None
      THEN raise(p, "add_order") /\ UNCHANGED now
    ELSE IF insufficient_funds(r.type, r.volume, q, balance)
      THEN /\ Return(p, Error("add_order", "EOrder:Insufficient funds"))
           /\ UNCHANGED <<stores, txn, now>>
    ELSE /\ HasRoom
         /\ pc' = [pc EXCEPT ![p] = "add_insert"]
         /\ loc' = [loc EXCEPT ![p] =
                      [op |-> "add_order", api_key |-> k, req |-> [r EXCEPT !.price = q]]]
         /\ UNCHANGED <<stores, txn, resp, now>>

\* Lines 170-289: validation, pair lookup, SELECT balance.  An existing balance
\* row leads straight to the check, a missing one to its INSERT.
add_order(p, k, r) ==
  /\ pc[p] = "idle"
  /\ IF add_order_validate(r) # ""
       THEN /\ Return(p, Error("add_order", add_order_validate(r)))
            /\ UNCHANGED <<stores, txn, now>>
     ELSE IF balances[k][check_asset(r)] = None
       THEN /\ HasRoom
            /\ pc' = [pc EXCEPT ![p] = "add_newbal"]
            /\ loc' = [loc EXCEPT ![p] = [op |-> "add_order", api_key |-> k, req |-> r]]
            /\ UNCHANGED <<stores, txn, resp, now>>
     ELSE add_order_precheck(p, k, r, Val(balances[k][check_asset(r)]))

\* Lines 241-246 / 272-277: INSERT the zero balance row and commit it, then the
\* check against balance 0.  The row may have been created meanwhile
\* (UNIQUE(api_key, asset)).
add_order_newbal(p) ==
  /\ pc[p] = "add_newbal"
  /\ txn.owner = "none"
  /\ LET k == loc[p].api_key
         r == loc[p].req
     IN  IF balances[k][check_asset(r)] # None
           THEN raise(p, "add_order") /\ UNCHANGED now
         ELSE /\ balances' = [balances EXCEPT ![k][check_asset(r)] = Some(0)]
              /\ UNCHANGED <<orders, trades, txn, now>>
              /\ \E q \in (IF r.type = "buy" /\ r.ordertype = "market"
                             THEN get_market_price ELSE {r.price}) :
                   IF r.type = "buy" /\ r.ordertype = "market" /\ q = None
                     THEN Return(p, Error("add_order", "EGeneral:Internal error"))
                   ELSE IF insufficient_funds(r.type, r.volume, q, 0)
                     THEN Return(p, Error("add_order", "EOrder:Insufficient funds"))
                   ELSE /\ pc' = [pc EXCEPT ![p] = "add_insert"]
                        /\ loc' = [loc EXCEPT ![p].req.price = q]
                        /\ UNCHANGED resp

\* The row of lines 296-304: executed_volume '0' and closed_time NULL by default.
new_order(k, order_id, r, timestamp) ==
  [api_key |-> k, order_id |-> order_id, pair |-> r.pair, type |-> r.type,
   order_type |-> r.ordertype, price |-> r.price, price2 |-> r.price2,
   volume |-> Val(r.volume), executed_volume |-> 0, status |-> "open",
   opened_time |-> timestamp, closed_time |-> None, user_ref |-> r.userref,
   data |-> [display_qty |-> None]]

\* Variant: order_id is not declared UNIQUE, a repeated identifier is stored.
add_order_insert_not_unique(p) ==
  /\ pc[p] = "add_insert"
  /\ txn.owner = "none"
  /\ \E order_id \in generate_order_id(OrderIds(orders)) :
       /\ txn' = [Begin(p) EXCEPT !.orders =
                    Append(orders, new_order(loc[p].api_key, order_id, loc[p].req, now))]
       /\ pc' = [pc EXCEPT ![p] = "add_match"]
       /\ loc' = [loc EXCEPT ![p] =
                    [op |-> "add_order", api_key |-> loc[p].api_key, req |-> loc[p].req,
                     order_id |-> order_id, timestamp |-> now]]
       /\ UNCHANGED <<stores, resp, now>>

\* Lines 291-304: the order identifier, the timestamp and the INSERT, which opens
\* the transaction.  A repeated identifier violates UNIQUE(order_id).
add_order_insert(p) ==
  /\ pc[p] = "add_insert"
  /\ txn.owner = "none"
  /\ \E order_id \in generate_order_id(OrderIds(orders)) :
       IF order_id \in OrderIds(orders)
         THEN raise(p, "add_order") /\ UNCHANGED now
       ELSE /\ txn' = [Begin(p) EXCEPT !.orders =
                         Append(orders, new_order(loc[p].api_key, order_id, loc[p].req, now))]
            /\ pc' = [pc EXCEPT ![p] = "add_match"]
            /\ loc' = [loc EXCEPT ![p] =
                         [op |-> "add_order", api_key |-> loc[p].api_key, req |-> loc[p].req,
                          order_id |-> order_id, timestamp |-> now]]
            /\ UNCHANGED <<stores, resp, now>>

\* Variant: the 5% branch is taken by every limit-family order type.
match_prices_family(ordertype) ==
  IF ordertype \in {"market"} \cup LimitFamily THEN get_market_price ELSE {None}
\* Variant: the 5% branch is taken by every order type but 'market'.
match_prices_always(ordertype) == get_market_price

\* Lines 312-318: the branches that read the market price a second time (the
\* order types 'market' and 'limit'); every other order type reads nothing.
match_prices(ordertype) ==
  IF ordertype \in {"market", "limit"} THEN get_market_price ELSE {None}

\* Variant: a market order is left to rest like a limit order far from the price.
decide_market_rests(ordertype, price, current_price) ==
  IF ordertype = "market" THEN None
  ELSE IF price_close(Val(price), current_price) THEN price
  ELSE None

\* Lines 310-327 for an order whose branch read current_price: Execute(at price)
\* as Some(price), Rest as None.  A market order executes at the price read, the
\* other branch at its own price when that is within 5% of the price read.
decide(ordertype, price, current_price) ==
  IF ordertype = "market" THEN Some(current_price)
  ELSE IF price_close(Val(price), current_price) THEN price
  ELSE None

\* UPDATE orders SET status = 'closed', executed_volume = ?, closed_time = ?
\* WHERE order_id = ?
close_order(table, order_id, executed_volume, timestamp) ==
  LET Where(o) == o.order_id = order_id
      Set(o) == [o EXCEPT !.status = "closed", !.executed_volume = executed_volume,
                          !.closed_time = Some(timestamp)]
  IN  Update(table, Where, Set)

\* Lines 310-342: the second price read for market and limit orders, the
\* decision, and for an executing order cost, fee and the UPDATE that closes it.
add_order_match(p) ==
  /\ pc[p] = "add_match"
  /\ txn.owner = p
  /\ LET r == loc[p].req IN
     \E q \in match_prices(r.ordertype) :
       IF match_prices(r.ordertype) # {None} /\ q = None
         THEN raise(p, "add_order") /\ UNCHANGED now
       ELSE IF q # None /\ r.ordertype # "market" /\ ~Truthy(r.price)
         THEN raise(p, "add_order") /\ UNCHANGED now    \* Decimal(None)
       ELSE IF q = None \/ decide(r.ordertype, r.price, Val(q)) = None
         THEN /\ pc' = [pc EXCEPT ![p] = "add_commit"]
              /\ loc' = [loc EXCEPT ![p] =
                           [op |-> "add_order", api_key |-> loc[p].api_key, req |-> r,
                            order_id |-> loc[p].order_id, timestamp |-> loc[p].timestamp,
                            current_price |-> q]]
              /\ UNCHANGED <<stores, txn, resp, now>>
       ELSE LET exec_price == Val(decide(r.ordertype, r.price, Val(q))) IN
            /\ txn' = [txn EXCEPT !.orders =
                         close_order(@, loc[p].order_id, Val(r.volume), loc[p].timestamp)]
            /\ pc' = [pc EXCEPT ![p] = "add_trade"]
            /\ loc' = [loc EXCEPT ![p] =
                         [op |-> "add_order", api_key |-> loc[p].api_key, req |-> r,
                          order_id |-> loc[p].order_id, timestamp |-> loc[p].timestamp,
                          current_price |-> q, exec_price |-> exec_price,
                          cost |-> calculate_cost(Val(r.volume), exec_price),
                          fee |-> calculate_fee(Val(r.volume), exec_price)]]
            /\ UNCHANGED <<stores, resp, now>>

\* The row of lines 345-351.
new_trade(l, trade_id) ==
  [api_key |-> l.api_key, trade_id |-> trade_id, order_id |-> l.order_id,
   pair |-> l.req.pair, type |-> l.req.type, price |-> l.exec_price,
   cost |-> l.cost, fee |-> l.fee, volume |-> Val(l.req.volume), time |-> l.timestamp]

\* Variant: the INSERT into trades is committed on its own.
add_order_trade_autocommit(p) ==
  /\ pc[p] = "add_trade"
  /\ txn.owner = p
  /\ \E trade_id \in generate_trade_id(TradeIds(txn.trades)) :
       IF trade_id \in TradeIds(txn.trades)
         THEN raise(p, "add_order") /\ UNCHANGED now
       ELSE /\ txn' = [txn EXCEPT !.trades = Append(@, new_trade(loc[p], trade_id))]
            /\ trades' = Append(trades, new_trade(loc[p], trade_id))
            /\ pc' = [pc EXCEPT ![p] = "add_quote"]
            /\ UNCHANGED <<balances, orders, loc, resp, now>>

\* Lines 335-351: the trade identifier and the INSERT into trades
\* (UNIQUE(trade_id)).
add_order_trade(p) ==
  /\ pc[p] = "add_trade"
  /\ txn.owner = p
  /\ \E trade_id \in generate_trade_id(TradeIds(txn.trades)) :
       IF trade_id \in TradeIds(txn.trades)
         THEN raise(p, "add_order") /\ UNCHANGED now
       ELSE /\ txn' = [txn EXCEPT !.trades = Append(@, new_trade(loc[p], trade_id))]
            /\ pc' = [pc EXCEPT ![p] = "add_quote"]
            /\ UNCHANGED <<stores, loc, resp, now>>

\* Variant: the fee is taken from the quote asset of a buy as well.
settle_quote_buy_fee(table, l) ==
  IF l.req.type = "buy"
    THEN upsert_balance(table, l.api_key, pair_info(l.req.pair).quote,
                        -(l.cost + l.fee), -(l.cost + l.fee))
    ELSE upsert_balance(table, l.api_key, pair_info(l.req.pair).quote,
                        l.cost - l.fee, l.cost - l.fee)
\* Variant: a sell is credited its whole cost.
settle_quote_gross(table, l) ==
  IF l.req.type = "buy"
    THEN upsert_balance(table, l.api_key, pair_info(l.req.pair).quote, -l.cost, -l.cost)
    ELSE upsert_balance(table, l.api_key, pair_info(l.req.pair).quote, l.cost, l.cost)

\* Lines 359-365 (buy) and 380-389 (sell): the quote asset's upsert.
settle_quote(table, l) ==
  IF l.req.type = "buy"
    THEN upsert_balance(table, l.api_key, pair_info(l.req.pair).quote, -l.cost, -l.cost)
    ELSE upsert_balance(table, l.api_key, pair_info(l.req.pair).quote,
                        l.cost - l.fee, l.cost - l.fee)

\* Lines 367-373 (buy) and 391-397 (sell): the base asset's upsert.
settle_base(table, l) ==
  IF l.req.type = "buy"
    THEN upsert_balance(table, l.api_key, pair_info(l.req.pair).base,
                        Val(l.req.volume), Val(l.req.volume))
    ELSE upsert_balance(table, l.api_key, pair_info(l.req.pair).base,
                        -Val(l.req.volume), -Val(l.req.volume))

\* Variant: the quote asset's upsert is committed on its own.
add_order_quote_autocommit(p) ==
  /\ pc[p] = "add_quote"
  /\ txn.owner = p
  /\ txn' = [txn EXCEPT !.balances = settle_quote(@, loc[p])]
  /\ balances' = settle_quote(balances, loc[p])
  /\ pc' = [pc EXCEPT ![p] = "add_base"]
  /\ UNCHANGED <<orders, trades, loc, resp, now>>

add_order_quote(p) ==
  /\ pc[p] = "add_quote"
  /\ txn.owner = p
  /\ txn' = [txn EXCEPT !.balances = settle_quote(@, loc[p])]
  /\ pc' = [pc EXCEPT ![p] = "add_base"]
  /\ UNCHANGED <<stores, loc, resp, now>>

add_order_base(p) ==
  /\ pc[p] = "add_base"
  /\ txn.owner = p
  /\ txn' = [txn EXCEPT !.balances = settle_base(@, loc[p])]
  /\ pc' = [pc EXCEPT ![p] = "add_commit"]
  /\ UNCHANGED <<stores, loc, resp, now>>

\* Lines 399-412: db.commit() and the success response.
add_order_commit(p) ==
  /\ pc[p] = "add_commit"
  /\ commit(p)
  /\ Return(p, Ok("add_order", Some(loc[p].order_id)))
  /\ UNCHANGED now

\* Lines 414-419: a statement of the open transaction raises (sqlite3.Error).
add_order_except(p) ==
  /\ pc[p] \in {"add_trade", "add_quote", "add_base", "add_commit"}
  /\ txn.owner = p
  /\ raise(p, "add_order")
  /\ UNCHANGED now

\* A write statement finds the lock held for longer than the connection's busy
\* timeout: sqlite3.OperationalError "database is locked".
WritePcs == {"add_newbal", "add_insert", "cancel_write", "edit_write", "amend_write"}
OpOf(at) ==
  CASE at \in {"add_newbal", "add_insert"} -> "add_order"
    [] at = "cancel_write" -> "cancel_order"
    [] at = "edit_write" -> "edit_order"
    [] at = "amend_write" -> "amend_order"
database_locked(p) ==
  /\ pc[p] \in WritePcs
  /\ txn.owner \notin {"none", p}
  /\ raise(p, OpOf(pc[p]))
  /\ UNCHANGED now

\* Variant: the order is looked up by its identifier alone.
by_order_id_any_account(table, k, txid) ==
  LET Where(o) == Some(o.order_id) = txid IN Rows(table, Where)

\* ------------------------------------------------------------ cancel_order
\* SELECT ... FROM orders WHERE api_key = ? AND order_id = ?
by_order_id(table, k, txid) ==
  LET Where(o) == o.api_key = k /\ Some(o.order_id) = txid IN Rows(table, Where)

\* SELECT ... FROM orders WHERE api_key = ? AND user_ref = ?
by_user_ref(table, k, userref) ==
  LET Where(o) == o.api_key = k /\ o.user_ref # None /\ o.user_ref = userref
  IN  Rows(table, Where)

\* cursor.fetchone(): the first row in rowid order; 0 when there is none.
fetchone(rows) == IF rows = {} THEN 0 ELSE CHOOSE i \in rows : \A j \in rows : i <= j

\* Variant: DELETE FROM orders WHERE order_id = ?
cancel_row_deletes(table, order_id, timestamp) ==
  SelectSeq(table, LAMBDA o : o.order_id # order_id)

\* Variant: the UPDATE sets the status only.
cancel_row_status_only(table, order_id, timestamp) ==
  LET Where(o) == o.order_id = order_id
      Set(o) == [o EXCEPT !.status = "canceled"]
  IN  Update(table, Where, Set)

\* UPDATE orders SET status = 'canceled', closed_time = ? WHERE order_id = ?
cancel_row(table, order_id, timestamp) ==
  LET Where(o) == o.order_id = order_id
      Set(o) == [o EXCEPT !.status = "canceled", !.closed_time = Some(timestamp)]
  IN  Update(table, Where, Set)

\* Variant: the status of the order found is not looked at.
cancel_order_unchecked(p, k, txid) ==
  /\ pc[p] = "idle"
  /\ UNCHANGED <<stores, txn, now>>
  /\ LET i == fetchone(by_order_id(orders, k, txid)) IN
     IF ~Truthy(txid)
       THEN Return(p, Error("cancel_order", "EGeneral:Invalid arguments"))
     ELSE IF i = 0 THEN Return(p, Error("cancel_order", "EOrder:Unknown order"))
     ELSE /\ pc' = [pc EXCEPT ![p] = "cancel_write"]
          /\ loc' = [loc EXCEPT ![p] = [op |-> "cancel_order", api_key |-> k, txid |-> txid]]
          /\ UNCHANGED resp

\* Lines 807-843: the parameter check, the SELECT and the status check.
cancel_order(p, k, txid) ==
  /\ pc[p] = "idle"
  /\ UNCHANGED <<stores, txn, now>>
  /\ LET i == fetchone(by_order_id(orders, k, txid)) IN
     IF ~Truthy(txid)
       THEN Return(p, Error("cancel_order", "EGeneral:Invalid arguments"))
     ELSE IF i = 0 THEN Return(p, Error("cancel_order", "EOrder:Unknown order"))
     ELSE IF orders[i].status # "open"
       THEN Return(p, Error("cancel_order", "EOrder:Cannot cancel closed order"))
     ELSE /\ pc' = [pc EXCEPT ![p] = "cancel_write"]
          /\ loc' = [loc EXCEPT ![p] = [op |-> "cancel_order", api_key |-> k, txid |-> txid]]
          /\ UNCHANGED resp

\* Lines 845-859: the UPDATE, the commit and count = 1.
cancel_order_write(p) ==
  /\ pc[p] = "cancel_write"
  /\ txn.owner = "none"
  /\ orders' = cancel_row(orders, Val(loc[p].txid), now)
  /\ Return(p, Ok("cancel_order", loc[p].txid))
  /\ UNCHANGED <<balances, trades, txn, now>>

\* ------------------------------------------------------------ edit_order
\* Lines 882-911: the parameter checks; "" when they pass.
edit_order_validate(r) ==
  IF ~Truthy(r.txid) /\ ~Truthy(r.userref) THEN "EGeneral:Invalid arguments"
  ELSE IF r.pair = "" THEN "EGeneral:Invalid arguments:pair"
  ELSE IF ~Truthy(r.volume) /\ ~Truthy(r.price) /\ ~Truthy(r.price2) /\ ~Truthy(r.displayvol)
    THEN "EGeneral:No parameters to edit"
  ELSE ""

\* Lines 917-933: the original order by txid, else by userref.
edit_order_find(table, k, r) ==
  fetchone(IF Truthy(r.txid) THEN by_order_id(table, k, r.txid)
           ELSE by_user_ref(table, k, r.userref))

\* Variant: the status of the original order is not looked at.
edit_order_check_any_status(table, i, r) ==
  IF i = 0 THEN "EOrder:Unknown order"
  ELSE IF table[i].order_type = "market" THEN "EOrder:Cannot edit market order"
  ELSE IF Truthy(r.volume) /\ Val(r.volume) < table[i].executed_volume
    THEN "EOrder:Invalid volume:New volume must be greater than executed volume"
  ELSE ""

\* Lines 935-965: the checks on the original order; "" when they pass.
edit_order_check(table, i, r) ==
  IF i = 0 THEN "EOrder:Unknown order"
  ELSE IF table[i].status # "open" THEN "EOrder:Cannot edit closed order"
  ELSE IF table[i].order_type = "market" THEN "EOrder:Cannot edit market order"
  ELSE IF Truthy(r.volume) /\ Val(r.volume) < table[i].executed_volume
    THEN "EOrder:Invalid volume:New volume must be greater than executed volume"
  ELSE ""

\* x or y
Or(x, y) == IF Truthy(x) THEN x ELSE y

\* Variant: the replacement is stored as executed in full.
replacement_order_executed(k, new_txid, r, original, timestamp) ==
  [api_key |-> k, order_id |-> new_txid, pair |-> r.pair, type |-> original.type,
   order_type |-> original.order_type, price |-> Or(r.price, original.price),
   price2 |-> Or(r.price2, original.price2),
   volume |-> Val(Or(r.volume, Some(original.volume))),
   executed_volume |-> Val(Or(r.volume, Some(original.volume))),
   status |-> "closed", opened_time |-> timestamp, closed_time |-> Some(timestamp),
   user_ref |-> Or(r.userref, original.user_ref),
   data |-> [display_qty |-> r.displayvol]]

\* Lines 991-1014: the replacement row.
replacement_order(k, new_txid, r, original, timestamp) ==
  [api_key |-> k, order_id |-> new_txid, pair |-> r.pair, type |-> original.type,
   order_type |-> original.order_type, price |-> Or(r.price, original.price),
   price2 |-> Or(r.price2, original.price2),
   volume |-> Val(Or(r.volume, Some(original.volume))), executed_volume |-> 0,
   status |-> "open", opened_time |-> timestamp, closed_time |-> None,
   user_ref |-> Or(r.userref, original.user_ref),
   data |-> [display_qty |-> r.displayvol]]

\* Lines 875-982: the parameter checks, the SELECT, the checks on the order and
\* the validate-only return.
edit_order(p, k, r) ==
  /\ pc[p] = "idle"
  /\ UNCHANGED <<stores, txn, now>>
  /\ LET i == edit_order_find(orders, k, r) IN
     IF edit_order_validate(r) # ""
       THEN Return(p, Error("edit_order", edit_order_validate(r)))
     ELSE IF edit_order_check(orders, i, r) # ""
       THEN Return(p, Error("edit_order", edit_order_check(orders, i, r)))
     ELSE IF r.validate THEN Return(p, Ok("edit_order", None))
     ELSE /\ HasRoom
          /\ pc' = [pc EXCEPT ![p] = "edit_write"]
          /\ loc' = [loc EXCEPT ![p] =
                       [op |-> "edit_order", api_key |-> k, req |-> r, original |-> orders[i]]]
          /\ UNCHANGED resp

\* Lines 984-1041: cancel the original, insert the replacement
\* (UNIQUE(order_id)), commit.
edit_order_write(p) ==
  /\ pc[p] = "edit_write"
  /\ txn.owner = "none"
  /\ \E new_txid \in generate_order_id(OrderIds(orders)) :
       IF new_txid \in OrderIds(orders)
         THEN raise(p, "edit_order") /\ UNCHANGED now
       ELSE /\ orders' = Append(cancel_row(orders, loc[p].original.order_id, now),
                                replacement_order(loc[p].api_key, new_txid, loc[p].req,
                                                  loc[p].original, now))
            /\ Return(p, Ok("edit_order", Some(new_txid)))
            /\ UNCHANGED <<balances, trades, txn, now>>

\* ------------------------------------------------------------ amend_order
\* Lines 1063-1083: the parameter checks; "" when they pass.
amend_order_validate(r) ==
  IF ~Truthy(r.txid) /\ ~Truthy(r.cl_ord_id) THEN "EGeneral:Invalid arguments"
  ELSE IF ~Truthy(r.order_qty) /\ ~Truthy(r.display_qty) /\ ~Truthy(r.limit_price)
          /\ ~Truthy(r.trigger_price)
    THEN "EGeneral:No parameters to amend"
  ELSE ""

\* Lines 1089-1101: the order by txid, else by cl_ord_id.
amend_order_find(table, k, r) ==
  fetchone(IF Truthy(r.txid) THEN by_order_id(table, k, r.txid)
           ELSE by_user_ref(table, k, r.cl_ord_id))

\* Variant: the new quantity is not compared with the executed quantity.
amend_order_check_any_qty(table, i, r) ==
  IF i = 0 THEN "EOrder:Unknown order"
  ELSE IF table[i].status # "open" THEN "EOrder:Cannot amend closed order"
  ELSE IF table[i].order_type = "market" THEN "EOrder:Cannot amend market order"
  ELSE IF Truthy(r.display_qty) /\ Truthy(r.order_qty)
          /\ Val(r.display_qty) * 15 < Val(r.order_qty)
    THEN "EOrder:Invalid display_qty:Display quantity must be at least 1/15 of order quantity"
  ELSE ""

\* Lines 1103-1140: the checks on the order; "" when they pass.
amend_order_check(table, i, r) ==
  IF i = 0 THEN "EOrder:Unknown order"
  ELSE IF table[i].status # "open" THEN "EOrder:Cannot amend closed order"
  ELSE IF table[i].order_type = "market" THEN "EOrder:Cannot amend market order"
  ELSE IF Truthy(r.order_qty) /\ Val(r.order_qty) < table[i].executed_volume
    THEN "EOrder:Invalid order_qty:New quantity must be greater than executed quantity"
  ELSE IF Truthy(r.display_qty) /\ Truthy(r.order_qty)
          /\ Val(r.display_qty) * 15 < Val(r.order_qty)
    THEN "EOrder:Invalid display_qty:Display quantity must be at least 1/15 of order quantity"
  ELSE ""

\* Variant: the UPDATE writes all four fields, absent ones as NULL.
amend_row_all_fields(table, order_id, r) ==
  LET Where(o) == o.order_id = order_id
      Set(o) == [o EXCEPT !.volume = IF Truthy(r.order_qty) THEN Val(r.order_qty) ELSE @,
                          !.price = r.limit_price,
                          !.price2 = r.trigger_price,
                          !.data.display_qty = r.display_qty]
  IN  Update(table, Where, Set)

\* Lines 1142-1169: UPDATE orders SET <the supplied fields> WHERE order_id = ?
amend_row(table, order_id, r) ==
  LET Where(o) == o.order_id = order_id
      Set(o) == [o EXCEPT !.volume = IF Truthy(r.order_qty) THEN Val(r.order_qty) ELSE @,
                          !.price = Or(r.limit_price, @),
                          !.price2 = Or(r.trigger_price, @),
                          !.data.display_qty = Or(r.display_qty, @)]
  IN  Update(table, Where, Set)

\* Lines 1057-1140: the parameter checks, the SELECT and the checks on the order.
amend_order(p, k, r) ==
  /\ pc[p] = "idle"
  /\ UNCHANGED <<stores, txn, now>>
  /\ LET i == amend_order_find(orders, k, r) IN
     IF amend_order_validate(r) # ""
       THEN Return(p, Error("amend_order", amend_order_validate(r)))
     ELSE IF amend_order_check(orders, i, r) # ""
       THEN Return(p, Error("amend_order", amend_order_check(orders, i, r)))
     ELSE /\ pc' = [pc EXCEPT ![p] = "amend_write"]
          /\ loc' = [loc EXCEPT ![p] =
                       [op |-> "amend_order", api_key |-> k, req |-> r,
                        order_id |-> orders[i].order_id]]
          /\ UNCHANGED resp

\* Lines 1142-1184: the UPDATE, the commit and the amend_id.
amend_order_write(p) ==
  /\ pc[p] = "amend_write"
  /\ txn.owner = "none"
  /\ orders' = amend_row(orders, loc[p].order_id, loc[p].req)
  /\ Return(p, Ok("amend_order", None))
  /\ UNCHANGED <<balances, trades, txn, now>>

\* ------------------------------------------------------------ query_trades
\* The identifiers of the txid parameter, split at commas.  Order and trade
\* identifiers are different strings, so each carries its kind.
OrderId(n) == [kind |-> "order", id |-> n]
TradeId(n) == [kind |-> "trade", id |-> n]

\* Lines 577-611: the trades of the account whose trade_id is among ids.
trades_by_trade_id(k, ids) ==
  Rows(trades, LAMBDA t : t.api_key = k /\ \E j \in DOMAIN ids :
                            ids[j].kind = "trade" /\ ids[j].id = t.trade_id)

\* Lines 617-624: the trades of the account whose order_id is the given one.
trades_by_order_id(k, id) ==
  Rows(trades, LAMBDA t : t.api_key = k /\ id.kind = "order" /\ id.id = t.order_id)

\* Lines 652-659: the order of the account with the given identifier.
order_of_account(k, id) ==
  Rows(orders, LAMBDA o : o.api_key = k /\ id.kind = "order" /\ id.id = o.order_id)

\* The row of lines 663-678: the order's own price, or the market price when it
\* has none; the order's whole volume; the order's opening time.
dummy_trade(k, trade_id, o, price) ==
  [api_key |-> k, trade_id |-> trade_id, order_id |-> o.order_id, pair |-> o.pair,
   type |-> o.type, price |-> price, cost |-> calculate_cost(o.volume, price),
   fee |-> calculate_fee(o.volume, price), volume |-> o.volume, time |-> o.opened_time]

\* Lines 550-707.  With one identifier that names no trade, the trades of the
\* order of that identifier are looked up; when the account has that order and
\* it has no trade, a trade is inserted for it and committed.
query_trades(p, k, ids) ==
  /\ pc[p] = "idle"
  /\ IF ids = <<>>
       THEN /\ Return(p, Error("query_trades", "EGeneral:Invalid arguments"))
            /\ UNCHANGED <<stores, txn, now>>
     ELSE IF \/ trades_by_trade_id(k, ids) # {}
             \/ Len(ids) # 1
             \/ trades_by_order_id(k, ids[1]) # {}
             \/ order_of_account(k, ids[1]) = {}
       THEN /\ Return(p, Ok("query_trades", None))
            /\ UNCHANGED <<stores, txn, now>>
     ELSE LET o == orders[fetchone(order_of_account(k, ids[1]))] IN
       \E trade_id \in generate_trade_id(TradeIds(trades)),
          q \in (IF Truthy(o.price) THEN {o.price} ELSE get_market_price) :
         IF q = None \/ trade_id \in TradeIds(trades) \/ txn.owner # "none"
           THEN raise(p, "query_trades") /\ UNCHANGED now
         ELSE /\ trades' = Append(trades, dummy_trade(k, trade_id, o, Val(q)))
              /\ Return(p, Ok("query_trades", None))
              /\ UNCHANGED <<balances, orders, txn, now>>

\* ------------------------------------------------------------ open_orders, closed_orders
\* Lines 76-86: SELECT ... FROM orders WHERE api_key = ? AND status = 'open'
\* [AND user_ref = ?]; the handler executes SELECTs only.
open_orders(table, k, userref) ==
  LET Where(o) == /\ o.api_key = k
                  /\ o.status = "open"
                  /\ Truthy(userref) => (o.user_ref # None /\ o.user_ref = userref)
  IN  Rows(table, Where)

\* Lines 442-466: SELECT ... FROM orders WHERE api_key = ? AND status != 'open'
\* [AND user_ref = ?], without start and end, at offset 0 (the LIMIT of 50 rows
\* is above MaxOrders); the handler executes SELECTs only.
closed_orders(table, k, userref) ==
  LET Where(o) == /\ o.api_key = k
                  /\ o.status # "open"
                  /\ Truthy(userref) => (o.user_ref # None /\ o.user_ref = userref)
  IN  Rows(table, Where)

\* ------------------------------------------------------------ requests
Req(type, ordertype, volume, price) ==
  [pair |-> "XBTUSD", type |-> type, ordertype |-> ordertype, volume |-> volume,
   price |-> price, price2 |-> None, userref |-> None]

TxIds == {Some(i) : i \in 1..MaxOrders}

\* Limit prices: exactly 5% above the higher price of Prices (more than 5% from
\* the lower one), one step further away (more than 5% from both), and a price
\* within 5% of both.
AtLimit == 66150 * Quant
PastLimit == 66150 * Quant + 1
NearLimit == 60000 * Quant + 1

\* Concurrent requests of one account: two of the buys, or two of the sells,
\* are each covered by the seeded balance but not together.
Requests ==
  { Req("buy", "market", Some(16 * Quant), None),
    Req("sell", "limit", Some(60 * Quant), Some(AtLimit)) }

Next ==
  \/ \E p \in Procs, k \in Accounts, r \in Requests : add_order(p, k, r)
  \/ \E p \in Procs : add_order_insert(p)
  \/ \E p \in Procs : add_order_match(p)
  \/ \E p \in Procs : add_order_trade(p)
  \/ \E p \in Procs : add_order_quote(p)
  \/ \E p \in Procs : add_order_base(p)
  \/ \E p \in Procs : add_order_commit(p)
  \/ \E p \in Procs : add_order_except(p)
  \/ \E p \in Procs : database_locked(p)
  \/ \E p \in Procs, k \in Accounts, txid \in TxIds : cancel_order(p, k, txid)
  \/ \E p \in Procs : cancel_order_write(p)

Spec == Init /\ [][Next]_vars

\* One request at a time: market and limit orders of both sides, of a whole
\* volume and of the smallest volume.
SeqRequests ==
  { Req(t, "market", Some(v), None) : t \in {"buy", "sell"}, v \in {16 * Quant, 1} }
  \cup { Req(t, "limit", Some(v), Some(px)) : t \in {"buy", "sell"}, v \in {16 * Quant, 1},
         px \in {AtLimit, PastLimit, NearLimit} }

NextSeq ==
  \/ \E k \in Accounts, r \in SeqRequests : add_order("p1", k, r)
  \/ add_order_insert("p1")
  \/ add_order_match("p1")
  \/ add_order_trade("p1")
  \/ add_order_quote("p1")
  \/ add_order_base("p1")
  \/ add_order_commit("p1")
  \/ add_order_except("p1")

SpecSeq == Init /\ [][NextSeq]_vars

\* One request at a time: every order type, with and without a price.
KindRequests ==
  { Req(t, ot, Some(16 * Quant), px) :
      t \in {"buy", "sell"}, ot \in OrderTypes, px \in {None, Some(NearLimit)} }

NextKinds ==
  \/ \E k \in Accounts, r \in KindRequests : add_order("p1", k, r)
  \/ add_order_insert("p1")
  \/ add_order_match("p1")
  \/ add_order_trade("p1")
  \/ add_order_quote("p1")
  \/ add_order_base("p1")
  \/ add_order_commit("p1")
  \/ add_order_except("p1")

SpecKinds == Init /\ [][NextKinds]_vars

\* utils.current_timestamp(): time.time() moves on between any two steps.
tick ==
  /\ now < MaxTime
  /\ now' = now + 1
  /\ UNCHANGED <<stores, txn, pc, loc, resp>>

\* One request at a time: a sell that executes, an order that rests, cancels of
\* every identifier, and the clock.
CancelRequests ==
  { Req("sell", "market", Some(1), None), Req("sell", "stop-loss", Some(16 * Quant), None) }

NextCancel ==
  \/ \E k \in Accounts, r \in CancelRequests : add_order("p1", k, r)
  \/ add_order_insert("p1")
  \/ add_order_match("p1")
  \/ add_order_trade("p1")
  \/ add_order_quote("p1")
  \/ add_order_base("p1")
  \/ add_order_commit("p1")
  \/ add_order_except("p1")
  \/ \E k \in Accounts, txid \in TxIds \cup {None} : cancel_order("p1", k, txid)
  \/ cancel_order_write("p1")
  \/ tick

SpecCancel == Init /\ [][NextCancel]_vars

\* edit_order's and amend_order's form parameters.
EditReq(txid, userref, pair, volume, price, price2, displayvol) ==
  [txid |-> txid, userref |-> userref, pair |-> pair, volume |-> volume, price |-> price,
   price2 |-> price2, displayvol |-> displayvol, validate |-> FALSE]
AmendReq(txid, order_qty, display_qty, limit_price, trigger_price) ==
  [txid |-> txid, cl_ord_id |-> None, order_qty |-> order_qty, display_qty |-> display_qty,
   limit_price |-> limit_price, trigger_price |-> trigger_price]

\* Concurrent requests on the orders of one account: a sell that executes or
\* rests with the price read, and a cancel, an edit and an amend of each order.
LifeRequests == { Req("sell", "limit", Some(16 * Quant), Some(AtLimit)) }
LifeEdits == { EditReq(txid, None, "XBTUSD", Some(8 * Quant), None, None, None) : txid \in TxIds }
LifeAmends == { AmendReq(txid, Some(4 * Quant), None, None, None) : txid \in TxIds }

NextLife ==
  \/ \E p \in Procs, k \in Accounts, r \in LifeRequests : add_order(p, k, r)
  \/ \E p \in Procs : add_order_insert(p)
  \/ \E p \in Procs : add_order_match(p)
  \/ \E p \in Procs : add_order_trade(p)
  \/ \E p \in Procs : add_order_quote(p)
  \/ \E p \in Procs : add_order_base(p)
  \/ \E p \in Procs : add_order_commit(p)
  \/ \E p \in Procs : add_order_except(p)
  \/ \E p \in Procs : database_locked(p)
  \/ \E p \in Procs, k \in Accounts, txid \in TxIds : cancel_order(p, k, txid)
  \/ \E p \in Procs : cancel_order_write(p)
  \/ \E p \in Procs, k \in Accounts, r \in LifeEdits : edit_order(p, k, r)
  \/ \E p \in Procs : edit_order_write(p)
  \/ \E p \in Procs, k \in Accounts, r \in LifeAmends : amend_order(p, k, r)
  \/ \E p \in Procs : amend_order_write(p)

SpecLife == Init /\ [][NextLife]_vars

\* One request at a time: orders that rest (one with a client reference and a
\* trigger price, one of a negative volume), a sell that executes, and edits and
\* amends of every order with each combination of supplied fields.
UserRef == 7
EditAdds ==
  { [Req("sell", "stop-loss", Some(16 * Quant), Some(NearLimit))
       EXCEPT !.price2 = Some(PastLimit), !.userref = Some(UserRef)],
    Req("sell", "market", Some(1), None),
    Req("buy", "stop-loss", Some(-Quant), None) }
Edits ==
  { EditReq(txid, None, pair, volume, price, None, displayvol) :
      txid \in TxIds, pair \in {"XBTUSD", "ETHUSD"}, volume \in {None, Some(8 * Quant)},
      price \in {None, Some(AtLimit)}, displayvol \in {None, Some(Quant)} }
  \cup { EditReq(None, Some(UserRef), "XBTUSD", Some(8 * Quant), None, None, None) }
Amends ==
  { AmendReq(txid, order_qty, display_qty, None, None) :
      txid \in TxIds, order_qty \in {None, Some(4 * Quant), Some(-Quant)},
      display_qty \in {None, Some(2 * Quant)} }

NextEdit ==
  \/ \E k \in Accounts, r \in EditAdds : add_order("p1", k, r)
  \/ add_order_insert("p1")
  \/ add_order_match("p1")
  \/ add_order_trade("p1")
  \/ add_order_quote("p1")
  \/ add_order_base("p1")
  \/ add_order_commit("p1")
  \/ add_order_except("p1")
  \/ \E k \in Accounts, r \in Edits : edit_order("p1", k, r)
  \/ edit_order_write("p1")
  \/ \E k \in Accounts, r \in Amends : amend_order("p1", k, r)
  \/ amend_order_write("p1")

SpecEdit == Init /\ [][NextEdit]_vars

\* One request at a time: a sell that executes, orders that rest with and without
\* a price, cancels, and trade queries by order and by trade identifier.
QueryAdds ==
  { Req("sell", "market", Some(1), None),
    Req("sell", "stop-loss", Some(16 * Quant), None),
    Req("sell", "limit", Some(16 * Quant), Some(PastLimit)) }
QueryIds ==
  {<<>>, <<OrderId(1), TradeId(1)>>}
  \cup { <<OrderId(i)>> : i \in 1..MaxOrders } \cup { <<TradeId(i)>> : i \in 1..MaxOrders }

NextQuery ==
  \/ \E k \in Accounts, r \in QueryAdds : add_order("p1", k, r)
  \/ add_order_insert("p1")
  \/ add_order_match("p1")
  \/ add_order_trade("p1")
  \/ add_order_quote("p1")
  \/ add_order_base("p1")
  \/ add_order_commit("p1")
  \/ add_order_except("p1")
  \/ \E k \in Accounts, txid \in TxIds : cancel_order("p1", k, txid)
  \/ cancel_order_write("p1")
  \/ \E k \in Accounts, ids \in QueryIds : query_trades("p1", k, ids)

SpecQuery == Init /\ [][NextQuery]_vars

\* One request at a time: a limit order that rests and a sell that executes,
\* then edits and amends of either with each combination of supplied fields,
\* among them a price within 5% of every market price, a negative volume, and
\* display quantities below, at and above 1/15 of the quantities.
ModifyAdds ==
  { Req("sell", "limit", Some(16 * Quant), Some(PastLimit)),
    Req("sell", "market", Some(1), None) }
ModifyEdits ==
  { EditReq(txid, None, "XBTUSD", f[1], f[2], None, None) :
      txid \in TxIds,
      f \in { <<Some(8 * Quant), None>>, <<None, Some(NearLimit)>>, <<Some(-Quant), None>> } }
ModifyAmends ==
  { AmendReq(txid, f[1], f[2], f[3], f[4]) :
      txid \in TxIds,
      f \in { <<None, Some(1), None, None>>,
              <<Some(30 * Quant), Some(1), None, None>>,
              <<Some(30 * Quant), Some(2 * Quant), None, None>>,
              <<Some(-Quant), None, None, None>>,
              <<None, None, Some(NearLimit), Some(AtLimit)>> } }

NextModify ==
  \/ \E k \in Accounts, r \in ModifyAdds : add_order("p1", k, r)
  \/ add_order_insert("p1")
  \/ add_order_match("p1")
  \/ add_order_trade("p1")
  \/ add_order_quote("p1")
  \/ add_order_base("p1")
  \/ add_order_commit("p1")
  \/ add_order_except("p1")
  \/ \E k \in Accounts, r \in ModifyEdits : edit_order("p1", k, r)
  \/ edit_order_write("p1")
  \/ \E k \in Accounts, r \in ModifyAmends : amend_order("p1", k, r)
  \/ amend_order_write("p1")

SpecModify == Init /\ [][NextModify]_vars

\* One request at a time: two well-formed orders, and requests with a required
\* field missing, a kind or a side that does not exist, a limit-family kind
\* without a price, and a pair that does not exist.
WellFormedAdds ==
  { Req("sell", "limit", Some(16 * Quant), Some(PastLimit)),
    Req("sell", "market", Some(1), None),
    Req("buy", "market", Some(16 * Quant), None) }
MalformedAdds ==
  { [Req("sell", "market", Some(1), None) EXCEPT !.pair = ""],
    Req("", "market", Some(1), None),
    Req("sell", "", Some(1), None),
    Req("sell", "market", None, None),
    Req("sell", "iceberg", Some(1), Some(NearLimit)),
    Req("hold", "market", Some(1), None),
    Req("sell", "limit", Some(1), None),
    Req("buy", "stop-loss-limit", Some(1), None),
    Req("buy", "take-profit-limit", Some(1), None),
    [Req("sell", "market", Some(1), None) EXCEPT !.pair = "XBTEUR"] }

NextMalformed ==
  \/ \E k \in Accounts, r \in WellFormedAdds \cup MalformedAdds : add_order("p1", k, r)
  \/ add_order_insert("p1")
  \/ add_order_match("p1")
  \/ add_order_trade("p1")
  \/ add_order_quote("p1")
  \/ add_order_base("p1")
  \/ add_order_commit("p1")
  \/ add_order_except("p1")

SpecMalformed == Init /\ [][NextMalformed]_vars

\* Two accounts, each with its credentials and its seeded balances, one request
\* at a time: either account places orders that rest and names, by identifier
\* or by client reference, orders of its own and of the other account.
Tenants == {"k1", "k2"}
InitTenants ==
  /\ balances = [k \in Tenants |-> seed_account_balances]
  /\ orders = <<>>
  /\ trades = <<>>
  /\ txn = NoTxn
  /\ pc = [p \in Procs |-> "idle"]
  /\ loc = [p \in Procs |-> NoLoc]
  /\ resp = NoResp
  /\ now = 1

TenantAdds ==
  { [Req("sell", "stop-loss", Some(16 * Quant), None) EXCEPT !.userref = Some(UserRef)] }
TenantCancels == { Some(1) }
TenantEdits ==
  { EditReq(Some(1), None, "XBTUSD", Some(8 * Quant), None, None, None),
    EditReq(None, Some(UserRef), "XBTUSD", Some(8 * Quant), None, None, None) }
TenantAmends ==
  { AmendReq(Some(1), Some(4 * Quant), None, None, None),
    [AmendReq(None, Some(4 * Quant), None, None, None) EXCEPT !.cl_ord_id = Some(UserRef)] }
TenantIds == { <<OrderId(1)>> }

NextTenants ==
  \/ \E k \in Tenants, r \in TenantAdds : add_order("p1", k, r)
  \/ add_order_insert("p1")
  \/ add_order_match("p1")
  \/ add_order_commit("p1")
  \/ \E k \in Tenants, txid \in TenantCancels : cancel_order("p1", k, txid)
  \/ cancel_order_write("p1")
  \/ \E k \in Tenants, r \in TenantEdits : edit_order("p1", k, r)
  \/ edit_order_write("p1")
  \/ \E k \in Tenants, r \in TenantAmends : amend_order("p1", k, r)
  \/ amend_order_write("p1")
  \/ \E k \in Tenants, ids \in TenantIds : query_trades("p1", k, ids)

SpecTenants == InitTenants /\ [][NextTenants]_vars

\* Two threads and a running clock: one thread places orders that rest, both
\* cancel them.
StampAdds == { Req("sell", "stop-loss", Some(16 * Quant), None) }
NextStamp ==
  \/ \E k \in Accounts, r \in StampAdds : add_order("p1", k, r)
  \/ add_order_insert("p1")
  \/ add_order_match("p1")
  \/ add_order_commit("p1")
  \/ \E p \in Procs, k \in Accounts, txid \in TxIds : cancel_order(p, k, txid)
  \/ \E p \in Procs : cancel_order_write(p)
  \/ tick

SpecStamp == Init /\ [][NextStamp]_vars

\* One request at a time: market orders of a positive, a zero and a negative
\* volume, an order of volume zero that rests, and a limit order at price zero.
SignAdds ==
  { Req(t, "market", Some(v), None) : t \in {"buy", "sell"}, v \in {-Quant, 0, Quant} }
  \cup { Req("sell", "stop-loss", Some(0), None),
         Req("buy", "limit", Some(Quant), Some(0)) }
NextSign ==
  \/ \E k \in Accounts, r \in SignAdds : add_order("p1", k, r)
  \/ add_order_insert("p1")
  \/ add_order_match("p1")
  \/ add_order_trade("p1")
  \/ add_order_quote("p1")
  \/ add_order_base("p1")
  \/ add_order_commit("p1")
  \/ add_order_except("p1")

SpecSign == Init /\ [][NextSign]_vars

\* An account without balance rows: auth.generate_api_credentials has committed
\* the credentials (line 48) and the process stopped before
\* database.seed_account_balances committed its rows (line 283); at the next
\* start the credentials exist and nothing is seeded.
InitUnseeded ==
  /\ balances = [k \in Accounts |-> [a \in Assets |-> None]]
  /\ orders = <<>>
  /\ trades = <<>>
  /\ txn = NoTxn
  /\ pc = [p \in Procs |-> "idle"]
  /\ loc = [p \in Procs |-> NoLoc]
  /\ resp = NoResp
  /\ now = 1

\* One request at a time: market and limit orders of both sides, of a whole
\* volume and of volume 0, which a balance of 0 covers.
UnseededRequests ==
  { Req(t, "market", Some(v), None) : t \in {"buy", "sell"}, v \in {16 * Quant, 0} }
  \cup { Req(t, "limit", Some(v), Some(NearLimit)) : t \in {"buy", "sell"},
         v \in {16 * Quant, 0} }

NextUnseeded ==
  \/ \E k \in Accounts, r \in UnseededRequests : add_order("p1", k, r)
  \/ add_order_newbal("p1")
  \/ add_order_insert("p1")
  \/ add_order_match("p1")
  \/ add_order_trade("p1")
  \/ add_order_quote("p1")
  \/ add_order_base("p1")
  \/ add_order_commit("p1")
  \/ add_order_except("p1")

SpecUnseeded == InitUnseeded /\ [][NextUnseeded]_vars

\* ------------------------------------------------------------ claims
\* A handler between its first write and its commit.
AddTxnPcs == {"add_match", "add_trade", "add_quote", "add_base", "add_commit"}

\* The step in which thread p returns from the place `at` of its handler.
Returns(p, at) == pc[p] = at /\ pc'[p] = "idle"

\* The step in which thread p's placement commits and answers with its txid.
Placed(p) == Returns(p, "add_commit") /\ resp'.error = ""

\* The step in which thread p's placement fails after its order was inserted.
Failed(p) == \E at \in AddTxnPcs : Returns(p, at) /\ resp'.error # ""

\* The committed row of an order identifier; an empty set when there is none.
OrderRow(table, order_id) == { table[i] : i \in Rows(table, LAMBDA o : o.order_id = order_id) }
TradesOf(table, order_id) == Rows(table, LAMBDA t : t.order_id = order_id)

\* The change of a committed balance in a step.
Delta(k, a) == Val(balances'[k][a]) - Val(balances[k][a])

\* The step adds exactly one committed trade, the last row, for p's order.
OneTrade(p) ==
  /\ Len(trades') = Len(trades) + 1
  /\ SubSeq(trades', 1, Len(trades)) = trades
  /\ trades'[Len(trades')].order_id = loc[p].order_id
NewTrade == trades'[Len(trades')]

\* The integer x is the fraction n/d rounded to a nearest integer.
Nearest(x, n, d) == 2 * Abs(x * d - n) <= d

\* The step leaves p's order resting: open, nothing executed, no trade, no
\* balance change.
Rested(p) ==
  /\ trades' = trades
  /\ balances' = balances
  /\ \E o \in OrderRow(orders', loc[p].order_id) : o.status = "open" /\ o.executed_volume = 0

\* The step leaves p's order closed and executed in full.
ClosedInFull(p) ==
  \E o \in OrderRow(orders', loc[p].order_id) :
    o.status = "closed" /\ o.executed_volume = Val(loc[p].req.volume)

\* |limit - reference| / reference * 100 <= 5
Within5(limit, reference) == 100 * Abs(limit - reference) <= 5 * reference

\* The last response is the txid of a committed placement.
Answered == resp.op = "add_order" /\ resp.error = "" /\ resp.txid # None

\* C1: after any sequence of operations every (account, asset) balance of the
\* ledger is >= 0.
C1_BalancesNonNegative ==
  \A k \in Accounts, a \in Assets : balances[k][a] # None => Val(balances[k][a]) >= 0

\* C2: the sufficiency check and the debit of a placement are one atomic step:
\* the amount a placement checked is still covered by the committed balance in
\* the step that commits its debit.
C2_CheckedAtDebit ==
  [][\A p \in Procs :
       (Returns(p, "add_commit") /\ "exec_price" \in DOMAIN loc[p]) =>
         ~insufficient_funds(loc[p].req.type, loc[p].req.volume, loc[p].req.price,
                             Val(balances[loc[p].api_key][check_asset(loc[p].req)]))]_vars

\* The effects of a market buy of volume v at the reference price px read at the
\* matching step, with the trade's cost given by CostIs(cost, v * px).
MarketBuy(p, CostIs(_, _)) ==
  LET k == loc[p].api_key
      v == Val(loc[p].req.volume)
      px == Val(loc[p].current_price)
      info == pair_info(loc[p].req.pair)
  IN  /\ OneTrade(p)
      /\ NewTrade.price = px
      /\ NewTrade.volume = v
      /\ CostIs(NewTrade.cost, v * px)
      /\ Nearest(NewTrade.fee, 26 * v * px, 10000 * Quant)
      /\ Delta(k, info.quote) = -NewTrade.cost
      /\ Delta(k, info.base) = v
      /\ \A a \in Assets \ {info.quote, info.base} : balances'[k][a] = balances[k][a]

IsMarketBuy(p) == loc[p].req.type = "buy" /\ loc[p].req.ordertype = "market"

ExecutedSell(p, CostIs(_, _)) ==
  LET k == loc[p].api_key
      v == Val(loc[p].req.volume)
      info == pair_info(loc[p].req.pair)
  IN  /\ OneTrade(p)
      /\ NewTrade.price = (IF loc[p].req.ordertype = "market"
                             THEN Val(loc[p].current_price) ELSE Val(loc[p].req.price))
      /\ NewTrade.volume = v
      /\ CostIs(NewTrade.cost, v * NewTrade.price)
      /\ Nearest(NewTrade.fee, 26 * v * NewTrade.price, 10000 * Quant)
      /\ Delta(k, info.quote) = NewTrade.cost - NewTrade.fee
      /\ Delta(k, info.base) = -v
      /\ \A a \in Assets \ {info.quote, info.base} : balances'[k][a] = balances[k][a]

IsExecutedSell(p) ==
  /\ loc[p].req.type = "sell"
  /\ \E o \in OrderRow(orders', loc[p].order_id) : o.status = "closed"

\* C4 as stated: an executed sell credits the quote balance by cost - fee, with
\* cost = v*p and fee = cost*0.26%, debits the base balance by v and records
\* one trade with that cost and fee.
C4_SellExact ==
  [][\A p \in Procs :
       (Placed(p) /\ IsExecutedSell(p)) =>
         ExecutedSell(p, LAMBDA cost, vp : cost * Quant = vp)]_vars

\* C4 amended: as above, with cost being v*p rounded to 8 fractional digits.
C4_SellRounded ==
  [][\A p \in Procs :
       (Placed(p) /\ IsExecutedSell(p)) =>
         ExecutedSell(p, LAMBDA cost, vp : Nearest(cost, vp, Quant))]_vars

\* A committed sell with a fee whose v*p is not a whole number of steps.
C4_Witness ==
  /\ Answered
  /\ \E i \in DOMAIN trades :
       /\ trades[i].order_id = Val(resp.txid) /\ trades[i].type = "sell"
       /\ (trades[i].volume * trades[i].price) % Quant # 0
       /\ trades[i].fee > 0

IsLimit(p) == loc[p].req.ordertype = "limit"

\* C5: a limit order whose price differs from the reference price by more than
\* 5% is stored open with executedVolume 0: no trade is created and no balance
\* changes.
C5_FarLimitRests ==
  [][\A p \in Procs :
       (Placed(p) /\ IsLimit(p)
          /\ ~Within5(Val(loc[p].req.price), Val(loc[p].current_price))) => Rested(p)]_vars

\* A committed open limit order one step beyond 5% of the higher reference price.
C5_Witness ==
  /\ Answered
  /\ trades = <<>>
  /\ balances = [k \in Accounts |-> seed_account_balances]
  /\ \E o \in OrderRow(orders, Val(resp.txid)) :
       /\ o.order_type = "limit" /\ o.price = Some(PastLimit)
       /\ o.status = "open" /\ o.executed_volume = 0

\* The execution of a limit order at its limit price, with the trade's cost
\* given by CostIs(cost, volume * limitPrice).
LimitExecuted(p, CostIs(_, _)) ==
  /\ OneTrade(p)
  /\ NewTrade.price = Val(loc[p].req.price)
  /\ CostIs(NewTrade.cost, Val(loc[p].req.volume) * Val(loc[p].req.price))
  /\ ClosedInFull(p)

IsCloseLimit(p) ==
  IsLimit(p) /\ Within5(Val(loc[p].req.price), Val(loc[p].current_price))

\* C6 as stated: a limit order whose price is within 5% of the reference price
\* (boundary included) executes at placement at the limit price: the trade's
\* price is the limit price, its cost is volume*limitPrice, and the order is
\* closed with executedVolume = volume.
C6_CloseLimitExact ==
  [][\A p \in Procs :
       (Placed(p) /\ IsCloseLimit(p)) =>
         LimitExecuted(p, LAMBDA cost, vp : cost * Quant = vp)]_vars

\* C6 amended: as above, with the cost being volume*limitPrice rounded to 8
\* fractional digits.
C6_CloseLimitRounded ==
  [][\A p \in Procs :
       (Placed(p) /\ IsCloseLimit(p)) =>
         LimitExecuted(p, LAMBDA cost, vp : Nearest(cost, vp, Quant))]_vars

\* A committed limit order executed at a limit price that is exactly 5% from the
\* only reference price it is close to, and differs from that price.
C6_Witness ==
  /\ Answered
  /\ \E i \in DOMAIN trades :
       /\ trades[i].order_id = Val(resp.txid) /\ trades[i].price = AtLimit
       /\ AtLimit \notin Prices
       /\ \E o \in OrderRow(orders, Val(resp.txid)) :
            o.order_type = "limit" /\ o.status = "closed" /\ o.executed_volume = o.volume

\* The limit price is within 5% of every price the oracle may report.
CloseToAll(p) ==
  loc[p].req.price # None /\ \A px \in Prices : Within5(Val(loc[p].req.price), px)

\* C7 as stated: the 5% rule applies to every limit-family kind: a limit,
\* stop-loss-limit or take-profit-limit order within 5% of the reference price
\* executes at placement at its limit price.
C7_FamilyExecutes ==
  [][\A p \in Procs :
       (Placed(p) /\ loc[p].req.ordertype \in LimitFamily /\ CloseToAll(p)) =>
         (OneTrade(p) /\ NewTrade.price = Val(loc[p].req.price) /\ ClosedInFull(p))]_vars

\* C7 amended: the 5% rule applies to the kind limit only: a limit order within
\* 5% of the reference price executes at its limit price, and a stop-loss-limit
\* or take-profit-limit order rests whatever its price.
C7_OnlyLimitExecutes ==
  [][\A p \in Procs :
       Placed(p) =>
         /\ IsCloseLimit(p) =>
              (OneTrade(p) /\ NewTrade.price = Val(loc[p].req.price) /\ ClosedInFull(p))
         /\ loc[p].req.ordertype \in LimitFamily \ {"limit"} => Rested(p)]_vars

\* A committed stop-loss-limit order that rests although its price is within 5%
\* of every reference price.
C7_Witness ==
  /\ Answered
  /\ \E o \in OrderRow(orders, Val(resp.txid)) :
       /\ o.order_type = "stop-loss-limit" /\ o.status = "open"
       /\ o.price # None /\ \A px \in Prices : Within5(Val(o.price), px)
       /\ TradesOf(trades, o.order_id) = {}

\* C8: a stop-loss, take-profit or settle-position order always rests at
\* placement, whatever its price.
C8_TriggerKindsRest ==
  [][\A p \in Procs :
       (Placed(p) /\ loc[p].req.ordertype \in {"stop-loss", "take-profit", "settle-position"})
         => Rested(p)]_vars

\* A committed open stop-loss order whose price is within 5% of every reference
\* price.
C8_Witness ==
  /\ Answered
  /\ \E o \in OrderRow(orders, Val(resp.txid)) :
       /\ o.order_type = "stop-loss" /\ o.status = "open" /\ o.executed_volume = 0
       /\ o.price # None /\ \A px \in Prices : Within5(Val(o.price), px)
       /\ TradesOf(trades, o.order_id) = {}

\* The balance changes a committed trade stands for: a buy debits the quote
\* asset by cost and credits the base asset by volume, a sell credits the quote
\* asset by cost - fee and debits the base asset by volume.
TradeDelta(t, a) ==
  LET info == pair_info(t.pair)
  IN  IF a = info.quote THEN (IF t.type = "buy" THEN -t.cost ELSE t.cost - t.fee)
      ELSE IF a = info.base THEN (IF t.type = "buy" THEN t.volume ELSE -t.volume)
      ELSE 0

RECURSIVE SumDeltas(_, _, _, _)
SumDeltas(table, n, k, a) ==
  IF n = 0 THEN 0
  ELSE SumDeltas(table, n - 1, k, a)
         + (IF table[n].api_key = k THEN TradeDelta(table[n], a) ELSE 0)

\* C9: an observer of the committed stores sees a placement's trade, both of
\* its balance deltas and the closed status of its order together or not at
\* all: an order is closed exactly when its one trade is there, and every
\* balance is the seeded balance plus the deltas of the trades that are there.
C9_VisibleTogether ==
  /\ \A i \in DOMAIN orders :
       LET o == orders[i] IN
         /\ o.status = "closed" <=> Cardinality(TradesOf(trades, o.order_id)) = 1
         /\ o.status # "closed" => TradesOf(trades, o.order_id) = {}
         /\ o.status = "closed" => o.executed_volume = o.volume
  /\ \A i \in DOMAIN trades : OrderRow(orders, trades[i].order_id) # {}
  /\ \A k \in Accounts, a \in Assets :
       Val(balances[k][a]) = Val(seed_account_balances[a]) + SumDeltas(trades, Len(trades), k, a)

\* A placement has inserted its trade and debited or credited the quote asset
\* in its transaction, not yet the base asset, while an earlier placement's
\* trade is committed and another thread is free to read.
C9_Witness ==
  \E p \in Procs :
    /\ pc[p] = "add_base"
    /\ Len(txn.trades) = Len(trades) + 1
    /\ txn.balances # balances
    /\ Len(trades) >= 1
    /\ \E q \in Procs \ {p} : pc[q] = "idle"

\* C10 as stated: when a step fails after the order was inserted, no trade, no
\* balance change and no close is visible afterwards, and the order remains
\* open with executedVolume 0.
C10_OrderRemainsOpen ==
  [][\A p \in Procs : Failed(p) => Rested(p)]_vars

\* C10 amended: when a step fails after the order was inserted, no trade, no
\* balance change and no close is visible afterwards, and neither is the order:
\* the whole placement is rolled back.
C10_RolledBack ==
  [][\A p \in Procs :
       Failed(p) => (stores' = stores /\ OrderRow(orders', loc[p].order_id) = {})]_vars

\* A placement has failed at its base asset's update, after its order, its
\* trade and its quote asset's update were written.
C10_Witness ==
  /\ resp.op = "add_order"
  /\ resp.error = "EGeneral:Internal error"
  /\ resp.at = "add_base"

\* The step in which thread p leaves its handler with a response.
Answers(p) == pc[p] # "idle" /\ pc'[p] = "idle" /\ resp'.proc = p

Refused(p) ==
  /\ pc'[p] = "idle" /\ resp'.proc = p /\ resp'.at = pc[p]
  /\ resp'.op = "add_order" /\ resp'.error = "EOrder:Insufficient funds"

\* C12: a placement that fails with InsufficientFunds performs no persistent
\* write: the balances, with the set of (account, asset) records that exist,
\* the orders and the trades are the same before and after; an absent balance
\* is read as zero without a record being created.
C12_RefusedWritesNothing ==
  [][\A p \in Procs : Refused(p) => stores' = stores]_vars

\* Between two versions of the orders table every row stays, with its
\* identifier, and a status that changes was open and becomes closed or canceled.
StatusMonotone(before, after) ==
  /\ Len(after) >= Len(before)
  /\ \A i \in DOMAIN before :
       /\ after[i].order_id = before[i].order_id
       /\ after[i].status # before[i].status =>
            (before[i].status = "open" /\ after[i].status \in {"closed", "canceled"})

\* C13: an order's status changes only open->closed or open->canceled and a
\* closed or canceled order keeps its status, in the committed orders and in
\* the orders of an open transaction, whatever placements, cancels, edits and
\* amends interleave.
C13_StatusMonotone ==
  [][/\ StatusMonotone(orders, orders')
     /\ (txn.owner # "none" /\ txn'.owner = txn.owner) => StatusMonotone(txn.orders, txn'.orders)
     /\ (txn.owner = "none" /\ txn'.owner # "none") => StatusMonotone(orders, txn'.orders)
     /\ (txn.owner # "none" /\ txn'.owner = "none" /\ orders' # orders) =>
          StatusMonotone(txn.orders, orders')]_vars

\* The committed orders hold a closed and a canceled order, and a cancel, edit
\* or amend of an order that is not open has just been refused.
C13_Witness ==
  /\ \E i \in DOMAIN orders : orders[i].status = "closed"
  /\ \E i \in DOMAIN orders : orders[i].status = "canceled"
  /\ resp.error \in {"EOrder:Cannot cancel closed order", "EOrder:Cannot edit closed order",
                     "EOrder:Cannot amend closed order"}

\* The order a cancel or an edit is about to set to canceled.
TargetOf(p) ==
  IF loc[p].op = "cancel_order" THEN Val(loc[p].txid) ELSE loc[p].original.order_id

\* C14: the open->terminal transition is compare-and-swap: a cancel or an edit
\* that succeeds found its order open at the moment of its write, so that of two
\* concurrent cancels or edits of one open order at most one succeeds.
C14_WriteFindsOpen ==
  [][\A p \in Procs :
       (Answers(p) /\ resp'.error = "" /\ pc[p] \in {"cancel_write", "edit_write"}) =>
         \E o \in OrderRow(orders, TargetOf(p)) : o.status = "open"]_vars

\* C15: a cancel of an open order of the calling account sets its status to
\* canceled and its closed_time to the current time, answers count = 1
\* (without error), and changes no other field of any order, no trade and no
\* balance.
C15_CancelEffect ==
  [][\A p \in Procs :
       (Answers(p) /\ pc[p] = "cancel_write" /\ resp'.error = "") =>
         \E i \in DOMAIN orders :
           /\ orders[i].order_id = Val(loc[p].txid)
           /\ orders[i].api_key = loc[p].api_key
           /\ orders[i].status = "open"
           /\ orders' = [orders EXCEPT ![i].status = "canceled",
                                        ![i].closed_time = Some(now)]
           /\ trades' = trades
           /\ balances' = balances]_vars

\* The last response is a successful cancel of an order that is now canceled
\* with the current time as closed_time, later than its opened_time.
C15_Witness ==
  /\ resp.op = "cancel_order" /\ resp.error = ""
  /\ \E o \in OrderRow(orders, Val(resp.txid)) :
       o.status = "canceled" /\ o.closed_time = Some(now) /\ now > o.opened_time

\* C16: a cancel of a closed or canceled order fails with OrderNotOpen, a
\* cancel of an identifier that does not exist fails with UnknownOrder, so the
\* second of two successive cancels of an order fails; a failing cancel leaves
\* every order unchanged.
C16_CancelRefused ==
  [][\A p \in Procs, k \in Accounts, txid \in TxIds :
       cancel_order(p, k, txid) =>
         LET rows == OrderRow(orders, Val(txid)) IN
           /\ rows = {} =>
                (pc'[p] = "idle" /\ resp'.error = "EOrder:Unknown order" /\ stores' = stores)
           /\ (\E o \in rows : o.status \in {"closed", "canceled"}) =>
                (pc'[p] = "idle" /\ resp'.error = "EOrder:Cannot cancel closed order"
                 /\ stores' = stores)]_vars

\* The second cancel of an order has just been refused: the order is canceled,
\* its closed_time is earlier than now, and the last response is OrderNotOpen.
C16_Witness ==
  /\ resp.op = "cancel_order" /\ resp.error = "EOrder:Cannot cancel closed order"
  /\ \E i \in DOMAIN orders :
       /\ orders[i].status = "canceled" /\ orders[i].closed_time # Some(now)
       /\ \A j \in DOMAIN orders : orders[j].status # "closed"

\* C17: in every state each order has executedVolume <= volume, and no step
\* lowers an order's executedVolume; in particular no amend and no edit leaves a
\* volume below the executed volume.
C17_ExecutedWithinVolume ==
  [][/\ \A i \in DOMAIN orders' : orders'[i].executed_volume <= orders'[i].volume
     /\ \A i \in DOMAIN orders :
          i \in DOMAIN orders' /\ orders'[i].executed_volume >= orders[i].executed_volume]_vars

\* C18: every trade belongs to an order that is closed with executedVolume equal
\* to the trade's volume (so an open or canceled order has no trade), and no
\* step, of a placement or of a query, adds a trade without changing balances.
C18_TradesOfClosedOrders ==
  [][/\ \A i \in DOMAIN trades' :
          \E o \in OrderRow(orders', trades'[i].order_id) :
            o.status = "closed" /\ o.executed_volume = trades'[i].volume
     /\ trades' # trades => balances' # balances]_vars

\* The step in which thread p's edit commits and answers with the new txid.
EditSucceeds(p) == Answers(p) /\ pc[p] = "edit_write" /\ resp'.error = ""
Replacement == orders'[Len(orders')]

\* C19: a successful edit, in one step, cancels the original order and adds
\* exactly one order: open, with an unused identifier, with the side, kind and
\* pair of the original, and with the original's volume, price, trigger price,
\* client reference and auxiliary data wherever the request supplies none.
C19_EditCarriesForward ==
  [][\A p \in Procs : EditSucceeds(p) =>
       \E i \in DOMAIN orders :
         LET o == orders[i]
             r == loc[p].req
         IN /\ o.order_id = loc[p].original.order_id
            /\ Len(orders') = Len(orders) + 1
            /\ \A j \in DOMAIN orders : j # i => orders'[j] = orders[j]
            /\ orders'[i].status = "canceled"
            /\ Replacement.order_id \notin OrderIds(orders)
            /\ Replacement.status = "open"
            /\ Replacement.type = o.type
            /\ Replacement.order_type = o.order_type
            /\ Replacement.pair = o.pair
            /\ Replacement.volume = Val(Or(r.volume, Some(o.volume)))
            /\ Replacement.price = Or(r.price, o.price)
            /\ Replacement.price2 = Or(r.price2, o.price2)
            /\ Replacement.user_ref = Or(r.userref, o.user_ref)
            /\ Replacement.data.display_qty = Or(r.displayvol, o.data.display_qty)]_vars

\* C20: the stored replacement order carries the identifier of the original
\* order: the row written by a successful edit is not the row that the same
\* edit of an original with any other identifier would have written.
C20_ReplacementNamesOriginal ==
  [][\A p \in Procs : EditSucceeds(p) =>
       \A other \in 1..(MaxOrders + 1) :
         other # loc[p].original.order_id =>
           Replacement # replacement_order(loc[p].api_key, Replacement.order_id, loc[p].req,
                                           [loc[p].original EXCEPT !.order_id = other], now)]_vars

\* C21: an edit does not run the matching: the step of a successful edit adds no
\* trade and changes no balance, and the replacement is open with executedVolume
\* 0, also when its price is within 5% of the market price.
C21_EditDoesNotMatch ==
  [][\A p \in Procs : EditSucceeds(p) =>
       /\ trades' = trades
       /\ balances' = balances
       /\ Replacement.status = "open"
       /\ Replacement.executed_volume = 0]_vars
\* A limit order stands open, unexecuted, as the answer of a successful edit,
\* at a price within 5% of every market price.
C21_Witness ==
  /\ resp.op = "edit_order"
  /\ resp.error = ""
  /\ \E o \in OrderRow(orders, Val(resp.txid)) :
       /\ o.order_type = "limit"
       /\ o.status = "open"
       /\ o.executed_volume = 0
       /\ \A px \in Prices : price_close(Val(o.price), px)

\* The step refuses thread p's request with the error e and writes nothing.
RefusedWith(p, e) == pc'[p] = "idle" /\ resp'.proc = p /\ resp'.error = e /\ stores' = stores

\* C22: an edit of an order the account does not have fails with UnknownOrder,
\* of an order that is not open with OrderNotOpen, of an open market order with
\* CannotEditMarketOrder, and with a new volume below the executed volume with
\* InvalidVolume; every edit that answers with an error leaves the orders, and
\* so the original, as they were, and adds no order.
C22_EditRefused ==
  [][/\ \A p \in Procs, k \in Accounts, r \in ModifyEdits :
          edit_order(p, k, r) =>
            LET rows == { o \in OrderRow(orders, Val(r.txid)) : o.api_key = k } IN
              /\ rows = {} => RefusedWith(p, "EOrder:Unknown order")
              /\ \A o \in rows :
                   IF o.status # "open" THEN RefusedWith(p, "EOrder:Cannot edit closed order")
                   ELSE IF o.order_type = "market"
                     THEN RefusedWith(p, "EOrder:Cannot edit market order")
                   ELSE (Truthy(r.volume) /\ Val(r.volume) < o.executed_volume) =>
                     RefusedWith(p, "EOrder:Invalid volume:New volume must be greater than executed volume")
     /\ \A p \in Procs :
          (Answers(p) /\ resp'.op = "edit_order" /\ resp'.error # "") => stores' = stores]_vars
\* An edit was refused for its volume while the order it named stands open.
C22_Witness ==
  /\ resp.op = "edit_order"
  /\ resp.error = "EOrder:Invalid volume:New volume must be greater than executed volume"
  /\ \E i \in DOMAIN orders : orders[i].status = "open" /\ orders[i].volume = 16 * Quant
  /\ \A i \in DOMAIN orders : orders[i].status # "canceled"

\* C23: an amend of an open order that supplies a display quantity below 1/15 of
\* the order quantity (the supplied order_qty, or the stored volume when none is
\* supplied) fails with InvalidDisplayQty and writes nothing.
C23_DisplayQtyRefused ==
  [][\A p \in Procs, k \in Accounts, r \in ModifyAmends :
       amend_order(p, k, r) =>
         \A o \in { o \in OrderRow(orders, Val(r.txid)) : o.api_key = k } :
           LET qty == IF Truthy(r.order_qty) THEN Val(r.order_qty) ELSE o.volume IN
             ( /\ o.status = "open"
               /\ o.order_type # "market"
               /\ qty >= o.executed_volume
               /\ Truthy(r.display_qty)
               /\ Val(r.display_qty) * 15 < qty )
             => RefusedWith(p, "EOrder:Invalid display_qty:Display quantity must be at least 1/15 of order quantity")]_vars

\* The step in which thread p's amend commits and answers.
AmendSucceeds(p) == Answers(p) /\ pc[p] = "amend_write" /\ resp'.error = ""

C25_AmendRefused ==
  [][/\ \A p \in Procs, k \in Accounts, r \in ModifyAmends :
          amend_order(p, k, r) =>
            LET rows == { o \in OrderRow(orders, Val(r.txid)) : o.api_key = k } IN
              /\ rows = {} => RefusedWith(p, "EOrder:Unknown order")
              /\ \A o \in rows :
                   IF o.status # "open" THEN RefusedWith(p, "EOrder:Cannot amend closed order")
                   ELSE IF o.order_type = "market"
                     THEN RefusedWith(p, "EOrder:Cannot amend market order")
                   ELSE (Truthy(r.order_qty) /\ Val(r.order_qty) < o.executed_volume) =>
                     RefusedWith(p, "EOrder:Invalid order_qty:New quantity must be greater than executed quantity")
     /\ \A p \in Procs :
          (Answers(p) /\ resp'.op = "amend_order" /\ resp'.error # "") => stores' = stores]_vars
\* An amend was refused for its quantity while the order it named stands open
\* with the volume it was placed with.
C25_Witness ==
  /\ resp.op = "amend_order"
  /\ resp.error = "EOrder:Invalid order_qty:New quantity must be greater than executed quantity"
  /\ Len(orders) = 1
  /\ orders[1].status = "open"
  /\ orders[1].volume = 16 * Quant

\* C26: the price, trigger price, volume and auxiliary data of an order are
\* written only while the order is open at the moment of the write: an amend
\* succeeds only on an order that is open when it writes, and no step changes
\* those fields of an order that is closed or canceled.
C26_FieldsWrittenWhileOpen ==
  [][/\ \A p \in Procs : AmendSucceeds(p) =>
          \E o \in OrderRow(orders, loc[p].order_id) : o.status = "open"
     /\ \A i \in DOMAIN orders :
          (i \in DOMAIN orders' /\ orders[i].status # "open") =>
            /\ orders'[i].price = orders[i].price
            /\ orders'[i].price2 = orders[i].price2
            /\ orders'[i].volume = orders[i].volume
            /\ orders'[i].data = orders[i].data]_vars

\* A placement request the validation must refuse.
Malformed(r) ==
  \/ r.pair = ""
  \/ r.type = ""
  \/ r.ordertype = ""
  \/ r.volume = None
  \/ r.ordertype \notin {"market", "limit", "stop-loss", "take-profit", "stop-loss-limit",
                          "take-profit-limit", "settle-position"}
  \/ r.type \notin {"buy", "sell"}
  \/ r.ordertype \in {"limit", "stop-loss-limit", "take-profit-limit"} /\ r.price = None
  \/ \A row \in asset_pairs : r.pair # row.pair_name /\ r.pair # row.altname

\* C27: a placement with a required field missing, with a kind or a side outside
\* the allowed ones, of a limit-family kind without a price, or with an unknown
\* pair is answered at once with an invalid-arguments error; balances, orders
\* and trades are unchanged, no transaction is opened and no order is created.
C27_MalformedRefused ==
  [][\A p \in Procs, k \in Accounts, r \in WellFormedAdds \cup MalformedAdds :
       (add_order(p, k, r) /\ Malformed(r)) =>
         /\ pc'[p] = "idle"
         /\ resp'.proc = p
         /\ resp'.error \in {"EGeneral:Invalid arguments", "EGeneral:Invalid ordertype",
                              "EGeneral:Invalid type", "EGeneral:Invalid arguments:price",
                              "EGeneral:Invalid arguments:pair"}
         /\ stores' = stores
         /\ txn' = txn]_vars
\* A limit order without a price was refused after an order had been stored.
C27_Witness ==
  /\ resp.op = "add_order"
  /\ resp.error = "EGeneral:Invalid arguments:price"
  /\ Len(orders) = 1
  /\ pc["p1"] = "idle"

\* C28: no order is stored whose client reference another order of the same
\* account already has: in every state the orders of an account with a given
\* client reference are at most one.
C28_ClientRefIdentifiesOne ==
  \A i, j \in DOMAIN orders :
    ( /\ orders[i].api_key = orders[j].api_key
      /\ orders[i].user_ref # None
      /\ orders[i].user_ref = orders[j].user_ref ) => i = j

\* C29: order identifiers are unique in every state; a successful placement and
\* a successful edit each add an order under an identifier that was not there
\* before; and every executed placement is accounted on its own: each closed
\* order has its one trade, and each balance is the seeded balance plus the
\* deltas of all the trades.
C29_DistinctOrders ==
  [][/\ \A i, j \in DOMAIN orders' : orders'[i].order_id = orders'[j].order_id => i = j
     /\ \A p \in Procs : Placed(p) =>
          /\ loc[p].order_id \notin OrderIds(orders)
          /\ loc[p].order_id \in OrderIds(orders')
          /\ resp'.txid = Some(loc[p].order_id)
     /\ \A p \in Procs : EditSucceeds(p) =>
          /\ Replacement.order_id \notin OrderIds(orders)
          /\ resp'.txid = Some(Replacement.order_id)
     /\ \A i \in DOMAIN orders' :
          orders'[i].status = "closed" =>
            Cardinality(TradesOf(trades', orders'[i].order_id)) = 1
     /\ \A k \in Accounts, a \in Assets :
          Val(balances'[k][a]) =
            Val(seed_account_balances[a]) + SumDeltas(trades', Len(trades'), k, a)]_vars
\* Two placements of the same request have both executed: two closed orders
\* that differ in their identifiers only, and a trade for each.
C29_Witness ==
  /\ Len(orders) = 2
  /\ orders[1].status = "closed"
  /\ orders[2].status = "closed"
  /\ orders[1].order_id # orders[2].order_id
  /\ [orders[1] EXCEPT !.order_id = 0] = [orders[2] EXCEPT !.order_id = 0]
  /\ Len(trades) = 2
  /\ trades[1].order_id # trades[2].order_id

\* C30: no step removes an order or a trade, and no step changes a committed
\* trade: the orders table keeps its rows, each under its identifier and its
\* account, and the trades table keeps its rows as they are.
C30_AppendOnly ==
  [][/\ Len(orders') >= Len(orders)
     /\ \A i \in DOMAIN orders :
          /\ orders'[i].order_id = orders[i].order_id
          /\ orders'[i].api_key = orders[i].api_key
     /\ Len(trades') >= Len(trades)
     /\ \A i \in DOMAIN trades : trades'[i] = trades[i]]_vars
\* After a cancel and a trade query that added a trade, a placement failed and
\* was rolled back: the canceled order and the trade are still there.
C30_Witness ==
  /\ resp.op = "add_order"
  /\ resp.error = "EGeneral:Internal error"
  /\ resp.at \in AddTxnPcs
  /\ Len(orders) = 1
  /\ orders[1].status = "canceled"
  /\ Len(trades) = 1

\* The rows of a table that belong to account k, in order.
Owned(table, k) == SelectSeq(table, LAMBDA row : row.api_key = k)

\* The step changes nothing that belongs to an account other than k.
OthersUntouched(k) ==
  \A other \in Tenants \ {k} :
    /\ balances'[other] = balances[other]
    /\ Owned(orders', other) = Owned(orders, other)
    /\ Owned(trades', other) = Owned(trades, other)

\* The orders that account k does not own and that a request names, by
\* identifier when it has one and by client reference otherwise.
ForeignOnly(k, txid, userref) ==
  LET Named(o) == IF txid # None THEN Some(o.order_id) = txid
                  ELSE o.user_ref # None /\ o.user_ref = userref
  IN  /\ \E i \in DOMAIN orders : Named(orders[i]) /\ orders[i].api_key # k
      /\ \A i \in DOMAIN orders : Named(orders[i]) => orders[i].api_key # k

\* C31: a cancel, an edit or an amend by one account that names, by identifier
\* or by client reference, an order of another account only, fails with
\* UnknownOrder; and no step of a request of one account changes an order, a
\* trade or a balance of another account.
C31_AccountsIsolated ==
  [][/\ \A p \in Procs, k \in Tenants, txid \in TenantCancels :
          (ForeignOnly(k, txid, None) /\ cancel_order(p, k, txid)) =>
            RefusedWith(p, "EOrder:Unknown order")
     /\ \A p \in Procs, k \in Tenants, r \in TenantEdits :
          (ForeignOnly(k, r.txid, r.userref) /\ edit_order(p, k, r)) =>
            RefusedWith(p, "EOrder:Unknown order")
     /\ \A p \in Procs, k \in Tenants, r \in TenantAmends :
          (ForeignOnly(k, r.txid, r.cl_ord_id) /\ amend_order(p, k, r)) =>
            RefusedWith(p, "EOrder:Unknown order")
     /\ \A p \in Procs, k \in Tenants, ids \in TenantIds :
          query_trades(p, k, ids) => OthersUntouched(k)
     /\ \A p \in Procs : pc[p] # "idle" => OthersUntouched(loc[p].api_key)]_vars
\* A cancel that named order 1 was answered with UnknownOrder while order 1
\* stands open: the caller was not its owner, and holds an order of its own.
C31_Witness ==
  /\ resp.op = "cancel_order"
  /\ resp.error = "EOrder:Unknown order"
  /\ Len(orders) = 2
  /\ orders[1].order_id = 1
  /\ orders[1].status = "open"
  /\ orders[1].api_key # orders[2].api_key
  /\ orders[2].status = "open"

\* C32: in every state an order's closedTimestamp is null exactly when its
\* status is open; the timestamp is written exactly in the step in which the
\* order leaves the status open (execution, cancel, edit), and an order that is
\* added starts open with a null closedTimestamp unless it executed at once.
C32_ClosedTimestamp ==
  [][/\ \A i \in DOMAIN orders' :
          orders'[i].closed_time = None <=> orders'[i].status = "open"
     /\ \A i \in DOMAIN orders :
          orders'[i].closed_time # orders[i].closed_time =>
            /\ orders[i].status = "open"
            /\ orders'[i].status # "open"
            /\ orders'[i].closed_time = Some(now)]_vars

\* C33: in every state each order has executedVolume 0 or its volume;
\* executedVolume equals the volume exactly when the status is closed, a closed
\* order has exactly one trade, and an open or canceled order has
\* executedVolume 0.
C33_AllOrNothing ==
  [][\A i \in DOMAIN orders' :
       LET o == orders'[i] IN
         /\ o.executed_volume \in {0, o.volume}
         /\ o.executed_volume = o.volume <=> o.status = "closed"
         /\ o.status = "closed" => Cardinality(TradesOf(trades', o.order_id)) = 1
         /\ o.status # "closed" => o.executed_volume = 0]_vars

\* C34: no committed market order has the status open, and no edit and no amend
\* is ever answered with CannotEditMarketOrder or CannotAmendMarketOrder.
C34_NoOpenMarketOrder ==
  /\ \A i \in DOMAIN orders : orders[i].order_type = "market" => orders[i].status # "open"
  /\ resp.error \notin {"EOrder:Cannot edit market order", "EOrder:Cannot amend market order"}
\* An amend that named a market order, the only order there is, was refused
\* because the order is closed.
C34_Witness ==
  /\ resp.op = "amend_order"
  /\ resp.error = "EOrder:Cannot amend closed order"
  /\ Len(orders) = 1
  /\ orders[1].order_type = "market"
  /\ orders[1].status = "closed"

\* C35: a market buy executes at the price its sufficiency check used: in the
\* step that commits the trade the execution price is the checked price, and the
\* cost is no more than the cost at the checked price.
C35_ExecutedAtCheckedPrice ==
  [][\A p \in Procs :
       (/\ Returns(p, "add_commit")
        /\ "exec_price" \in DOMAIN loc[p]
        /\ loc[p].req.type = "buy"
        /\ loc[p].req.ordertype = "market") =>
         /\ loc[p].exec_price = Val(loc[p].req.price)
         /\ loc[p].cost <= calculate_cost(Val(loc[p].req.volume), Val(loc[p].req.price))]_vars

\* C36: no balance update is lost: whatever the interleaving of the placements,
\* every committed balance is the seeded balance plus the sum of the signed
\* deltas of the committed trades of the account.
C36_NoLostUpdate ==
  \A k \in Accounts, a \in Assets :
    Val(balances[k][a]) - SumDeltas(trades, Len(trades), k, a) = Val(seed_account_balances[a])
\* Two market buys that both passed the balance check before either debit was
\* committed have both committed: the quote balance is below zero.
C36_Witness ==
  /\ Len(trades) = 2
  /\ trades[1].type = "buy"
  /\ trades[2].type = "buy"
  /\ resp.op = "add_order"
  /\ resp.error = ""
  /\ Val(balances["k1"]["ZUSD"]) < 0

\* The open orders of an account in a table of orders.
OpenOrders(table, k) == Rows(table, LAMBDA o : o.api_key = k /\ o.status = "open")

\* C37: an original order is replaced at most once: an edit that succeeds takes
\* one open order away for the one it adds, so the number of open orders of the
\* account does not grow in the step that writes the replacement.
C37_ReplacedOnce ==
  [][\A p \in Procs :
       (Answers(p) /\ pc[p] = "edit_write" /\ resp'.error = "") =>
         Cardinality(OpenOrders(orders', loc[p].api_key))
           <= Cardinality(OpenOrders(orders, loc[p].api_key))]_vars

\* The account has an open order that is not a market order and carries the
\* client reference.
OpenWithRef(k, ref) ==
  \E i \in DOMAIN orders :
    /\ orders[i].api_key = k
    /\ orders[i].status = "open"
    /\ orders[i].order_type # "market"
    /\ orders[i].user_ref # None
    /\ orders[i].user_ref = ref

\* C38: an edit or an amend addressed by client reference passes its checks
\* whenever the account has an open non-market order with that reference,
\* whatever older canceled or closed orders carry the reference as well.
C38_ByReferenceSucceeds ==
  [][\A p \in Procs, k \in Tenants :
       /\ \A r \in TenantEdits :
            (~Truthy(r.txid) /\ OpenWithRef(k, r.userref) /\ edit_order(p, k, r))
              => pc'[p] = "edit_write"
       /\ \A r \in TenantAmends :
            (~Truthy(r.txid) /\ OpenWithRef(k, r.cl_ord_id) /\ amend_order(p, k, r))
              => pc'[p] = "amend_write"]_vars

\* C39: every trade has a volume above zero and a cost of zero or more, and the
\* placement that commits it moves the balances the way of its side: a buy does
\* not raise the quote balance or lower the base balance, a sell does not lower
\* the quote balance or raise the base balance.
C39_TradesPositive ==
  [][\A p \in Procs :
       (Placed(p) /\ "exec_price" \in DOMAIN loc[p]) =>
         LET k == loc[p].api_key
             info == pair_info(loc[p].req.pair)
         IN  /\ OneTrade(p)
             /\ NewTrade.volume > 0
             /\ NewTrade.cost >= 0
             /\ loc[p].req.type = "buy" => (Delta(k, info.quote) <= 0 /\ Delta(k, info.base) >= 0)
             /\ loc[p].req.type = "sell" => (Delta(k, info.quote) >= 0 /\ Delta(k, info.base) <= 0)]_vars

\* C40: the queries are pure reads: a trade query leaves every balance, order
\* and trade as it was; the open-orders query returns exactly the open orders
\* of the account and the closed-orders query only closed or canceled ones.
C40_QueriesArePure ==
  [][\A k \in Accounts :
       /\ \A ids \in QueryIds : query_trades("p1", k, ids) => stores' = stores
       /\ open_orders(orders, k, None) = OpenOrders(orders, k)
       /\ \A i \in closed_orders(orders, k, None) :
            orders[i].api_key = k /\ orders[i].status \in {"closed", "canceled"}]_vars
====
